---- MODULE Spec2Model ----
(***************************************************************************)
(* Model of the sockpp Conan recipe (conanfile.py, class Sockpp).          *)
(*                                                                         *)
(* The recipe maps four three-valued options onto CMake definitions        *)
(* (configure_cmake), drives the CMake helper through configure / build /  *)
(* install (build, package) and publishes cpp_info (package_info).         *)
(*                                                                         *)
(* The CMake helper and the host (Conan) are the environment:              *)
(*  - each helper call (cmake.configure(), cmake.build(), cmake.install()) *)
(*    either returns or raises; the outcome is chosen nondeterministically;*)
(*  - the recipe has no try/except, so a raised exception leaves the       *)
(*    method that made the call and ends the host's run;                   *)
(*  - option values are the strings Conan stores: "True", "False", "None". *)
(***************************************************************************)
EXTENDS Integers, Sequences, FiniteSets, TLC

VARIABLES
    settings,      \* self.settings: os, compiler, build_type, arch (read-only input)
    options,       \* self.options: shared, examples, tests, docs
    definitions,   \* cmake.definitions of the most recent CMake helper object
    configured_with, \* the option values read by the most recent configure_cmake call
    calls,         \* helper calls made by the most recent operation, with their outcome
    op,            \* the most recent host action
    result,        \* how the most recent operation ended: "ok" or the exception that left it
    lifecycle,     \* progress of the host's run
    assigned,      \* option assignments made by the host since the last configure_cmake
    cpp_info       \* self.cpp_info

vars == <<settings, options, definitions, configured_with, calls, op, result,
          lifecycle, assigned, cpp_info>>

\* bound: option assignments the host makes between two configure_cmake calls
MaxAssign == 1

----------------------------------------------------------------------------
(* Declarations of the recipe *)

name == "sockpp"

OptionNames == {"shared", "examples", "tests", "docs"}

OptionValues == {"True", "False", "None"}

default_options == [o \in OptionNames |-> "None"]

SettingNames == {"os", "compiler", "build_type", "arch"}

OSNames == {"Windows", "Linux", "Macos"}

CompilerNames == {"gcc", "Visual Studio"}

BuildTypes == {"Debug", "Release"}

ArchNames == {"x86_64"}

(* Python's `x != None` and truthiness of a Conan option value *)
IsNone(v) == v = "None"

Truthy(v) == v = "True"

(* Python dict assignment d[k] = v *)
Put(d, k, v) == [x \in (DOMAIN d) \cup {k} |-> IF x = k THEN v ELSE d[x]]

EmptyDict == [x \in {} |-> "ON"]

OnOff(v) == IF Truthy(v) THEN "ON" ELSE "OFF"

----------------------------------------------------------------------------
(* configure_cmake: the definitions set on a new CMake helper *)

\* mutant: the helper object is kept between calls instead of being created anew
CMake_cached == definitions

\* CMake(self): a new helper; it holds none of the recipe's flags yet
CMake == EmptyDict

\* mutant: an unset `shared` is treated like False
set_shared_unset_as_false(d, opts) ==
    IF Truthy(opts.shared)
    THEN Put(Put(d, "SOCKPP_BUILD_SHARED", "ON"), "SOCKPP_BUILD_STATIC", "OFF")
    ELSE Put(Put(d, "SOCKPP_BUILD_SHARED", "OFF"), "SOCKPP_BUILD_STATIC", "ON")

set_shared(d, opts) ==
    IF ~IsNone(opts.shared)
    THEN IF Truthy(opts.shared)
         THEN Put(Put(d, "SOCKPP_BUILD_SHARED", "ON"), "SOCKPP_BUILD_STATIC", "OFF")
         ELSE Put(Put(d, "SOCKPP_BUILD_SHARED", "OFF"), "SOCKPP_BUILD_STATIC", "ON")
    ELSE d

set_examples(d, opts) ==
    IF ~IsNone(opts.examples)
    THEN Put(d, "SOCKPP_BUILD_EXAMPLES", OnOff(opts.examples))
    ELSE d

\* mutant: the tests flag is only emitted when docs is set as well
set_tests_needs_docs(d, opts) ==
    IF ~IsNone(opts.tests) /\ ~IsNone(opts.docs)
    THEN Put(d, "SOCKPP_BUILD_TESTS", OnOff(opts.tests))
    ELSE d

set_tests(d, opts) ==
    IF ~IsNone(opts.tests)
    THEN Put(d, "SOCKPP_BUILD_TESTS", OnOff(opts.tests))
    ELSE d

set_docs(d, opts) ==
    IF ~IsNone(opts.docs)
    THEN Put(d, "SOCKPP_BUILD_DOCUMENTATION", OnOff(opts.docs))
    ELSE d

\* the definitions handed to cmake.configure()
cmake_definitions(opts) ==
    set_docs(set_tests(set_examples(set_shared(CMake, opts), opts), opts), opts)

----------------------------------------------------------------------------
(* Helper calls and exception propagation *)

Call(step, ok) == [step |-> step, ok |-> ok]

\* configure_cmake: cmake.configure() is the only helper call
configure_cmake_calls(cfg_ok) == << Call("configure", cfg_ok) >>

configure_cmake_result(cfg_ok) == IF cfg_ok THEN "ok" ELSE "ConfigurationFailed"

\* mutant: build goes on to compile although configure raised
build_calls_ignores_configure(cfg_ok, step_ok) ==
    configure_cmake_calls(cfg_ok) \o << Call("build", step_ok) >>

\* build: configure_cmake(), then cmake.build() unless configure raised
build_calls(cfg_ok, step_ok) ==
    IF cfg_ok
    THEN configure_cmake_calls(cfg_ok) \o << Call("build", step_ok) >>
    ELSE configure_cmake_calls(cfg_ok)

\* mutant: the exception of cmake.build() is swallowed
build_result_swallows(cfg_ok, step_ok) ==
    IF ~cfg_ok THEN configure_cmake_result(cfg_ok) ELSE "ok"

build_result(cfg_ok, step_ok) ==
    IF ~cfg_ok THEN configure_cmake_result(cfg_ok)
    ELSE IF step_ok THEN "ok" ELSE "BuildFailed"

\* mutant: package compiles before it installs
package_calls_compiles(cfg_ok, step_ok) ==
    IF cfg_ok
    THEN configure_cmake_calls(cfg_ok) \o << Call("build", TRUE), Call("install", step_ok) >>
    ELSE configure_cmake_calls(cfg_ok)

\* package: configure_cmake(), then cmake.install() unless configure raised
package_calls(cfg_ok, step_ok) ==
    IF cfg_ok
    THEN configure_cmake_calls(cfg_ok) \o << Call("install", step_ok) >>
    ELSE configure_cmake_calls(cfg_ok)

package_result(cfg_ok, step_ok) ==
    IF ~cfg_ok THEN configure_cmake_result(cfg_ok)
    ELSE IF step_ok THEN "ok" ELSE "PackageFailed"

----------------------------------------------------------------------------
(* Progress of the host's run *)

Live == {"uninitialized", "configured", "built", "packaged"}

Rank(l) == CASE l = "uninitialized" -> 0
             [] l = "configured" -> 1
             [] l = "built" -> 2
             [] l = "packaged" -> 3
             [] OTHER -> 4

\* an exception ends the run; a normal return moves the run to `reached`
\* unless it is already further on
Advance(l, res, reached) ==
    IF res # "ok" THEN "aborted"
    ELSE IF Rank(reached) > Rank(l) THEN reached ELSE l

----------------------------------------------------------------------------
(* package_info *)

\* the cpp_info object a recipe receives: no libraries, no system libraries
default_cpp_info ==
    [includedirs |-> << "include" >>, libdirs |-> << "lib" >>,
     libs |-> << >>, system_libs |-> << >>]

\* mutant: the Windows library name is published without the -static suffix
package_info_cpp_plain_name(s, cpp) ==
    LET c1 == [cpp EXCEPT !.includedirs = << "include" >>, !.libdirs = << "lib" >>]
        c2 == IF s.os = "Windows"
              THEN [c1 EXCEPT !.libs = << "sockpp" >>, !.system_libs = << "ws2_32" >>]
              ELSE c1
    IN  IF s.os = "Linux" THEN [c2 EXCEPT !.libs = << "sockpp" >>] ELSE c2

package_info_cpp(s, cpp) ==
    LET c1 == [cpp EXCEPT !.includedirs = << "include" >>, !.libdirs = << "lib" >>]
        c2 == IF s.os = "Windows"
              THEN [c1 EXCEPT !.libs = << "sockpp-static" >>, !.system_libs = << "ws2_32" >>]
              ELSE c1
    IN  IF s.os = "Linux" THEN [c2 EXCEPT !.libs = << "sockpp" >>] ELSE c2

----------------------------------------------------------------------------
(* State machine *)

\* the recipe object as the host hands it to the first operation: the settings
\* of the target and the option values of the user (default_options is the
\* case of no user value) are in place, no CMake helper has been created
Init ==
    /\ settings \in [os : OSNames, compiler : CompilerNames,
                     build_type : BuildTypes, arch : ArchNames]
    /\ options \in [OptionNames -> OptionValues]
    /\ definitions = EmptyDict
    /\ configured_with = options
    /\ calls = << >>
    /\ op = "none"
    /\ result = "ok"
    /\ lifecycle = "uninitialized"
    /\ assigned = 0
    /\ cpp_info = default_cpp_info

\* the host assigns an option between two operations
set_option(k, v) ==
    /\ lifecycle \in Live
    /\ assigned < MaxAssign
    /\ options[k] # v
    /\ options' = [options EXCEPT ![k] = v]
    /\ assigned' = assigned + 1
    /\ op' = "set_option"
    /\ UNCHANGED <<settings, definitions, configured_with, calls, result,
                   lifecycle, cpp_info>>

\* a direct call of configure_cmake
configure(cfg_ok) ==
    /\ lifecycle \in Live
    /\ definitions' = cmake_definitions(options)
    /\ configured_with' = options
    /\ calls' = configure_cmake_calls(cfg_ok)
    /\ result' = configure_cmake_result(cfg_ok)
    /\ lifecycle' = Advance(lifecycle, configure_cmake_result(cfg_ok), "configured")
    /\ op' = "configure"
    /\ assigned' = 0
    /\ UNCHANGED <<settings, options, cpp_info>>

build(cfg_ok, step_ok) ==
    /\ lifecycle \in Live
    /\ definitions' = cmake_definitions(options)
    /\ configured_with' = options
    /\ calls' = build_calls(cfg_ok, step_ok)
    /\ result' = build_result(cfg_ok, step_ok)
    /\ lifecycle' = Advance(lifecycle, build_result(cfg_ok, step_ok), "built")
    /\ op' = "build"
    /\ assigned' = 0
    /\ UNCHANGED <<settings, options, cpp_info>>

package(cfg_ok, step_ok) ==
    /\ lifecycle \in {"built", "packaged"}
    /\ definitions' = cmake_definitions(options)
    /\ configured_with' = options
    /\ calls' = package_calls(cfg_ok, step_ok)
    /\ result' = package_result(cfg_ok, step_ok)
    /\ lifecycle' = Advance(lifecycle, package_result(cfg_ok, step_ok), "packaged")
    /\ op' = "package"
    /\ assigned' = 0
    /\ UNCHANGED <<settings, options, cpp_info>>

\* mutant: package_info runs configure_cmake to find out what was built
package_info_reconfigures ==
    /\ lifecycle \in Live
    /\ cpp_info' = package_info_cpp(settings, cpp_info)
    /\ definitions' = cmake_definitions(options)
    /\ configured_with' = options
    /\ calls' = configure_cmake_calls(TRUE)
    /\ result' = "ok"
    /\ op' = "package_info"
    /\ assigned' = 0
    /\ UNCHANGED <<settings, options, lifecycle>>

package_info ==
    /\ lifecycle \in Live
    /\ cpp_info' = package_info_cpp(settings, cpp_info)
    /\ calls' = << >>
    /\ result' = "ok"
    /\ op' = "package_info"
    /\ UNCHANGED <<settings, options, definitions, configured_with, lifecycle, assigned>>

Next ==
    \/ \E k \in OptionNames, v \in OptionValues : set_option(k, v)
    \/ \E c \in BOOLEAN : configure(c)
    \/ \E c \in BOOLEAN, s \in BOOLEAN : build(c, s)
    \/ \E c \in BOOLEAN, s \in BOOLEAN : package(c, s)
    \/ package_info

Spec == Init /\ [][Next]_vars

----------------------------------------------------------------------------
(* Vocabulary of the properties *)

\* the most recent host action ran configure_cmake
ConfigOps == {"configure", "build", "package"}

FlagPairs(d) == {<<k, d[k]>> : k \in DOMAIN d}

Restrict(d, ks) == {<<k, d[k]>> : k \in (DOMAIN d) \cap ks}

Steps(cs) == [i \in 1..Len(cs) |-> cs[i].step]

ConfigureFailed == Len(calls) > 0 /\ calls[1] = Call("configure", FALSE)

CompileFailed == \E i \in 1..Len(calls) : calls[i] = Call("build", FALSE)

\* the pair of linkage flags that `shared` must produce under the names sh, st
SharedFlagsAs(sh, st) ==
    op \in ConfigOps =>
        Restrict(definitions, {sh, st}) =
            CASE configured_with.shared = "True"  -> {<<sh, "ON">>, <<st, "OFF">>}
              [] configured_with.shared = "False" -> {<<sh, "OFF">>, <<st, "ON">>}
              [] OTHER -> {}

\* the flag that option o must produce under the name f
OptionFlagAs(o, f) ==
    Restrict(definitions, {f}) =
        CASE configured_with[o] = "True"  -> {<<f, "ON">>}
          [] configured_with[o] = "False" -> {<<f, "OFF">>}
          [] OTHER -> {}

OtherFlagsAs(ex, te, do) ==
    op \in ConfigOps =>
        /\ OptionFlagAs("examples", ex)
        /\ OptionFlagAs("tests", te)
        /\ OptionFlagAs("docs", do)
        /\ configured_with = [shared |-> "None", examples |-> "None",
                              tests |-> "False", docs |-> "True"]
              => FlagPairs(definitions) = {<<te, "OFF">>, <<do, "ON">>}

----------------------------------------------------------------------------
(* C1 *)

\* C1 as stated: shared=true hands exactly BUILD_SHARED=ON and BUILD_STATIC=OFF
\* to the configure step, shared=false exactly BUILD_SHARED=OFF and
\* BUILD_STATIC=ON, shared unset neither flag.
C1_FlagsNamedAsStated == SharedFlagsAs("BUILD_SHARED", "BUILD_STATIC")

\* C1 (amended): after every configure_cmake call the definitions handed to the
\* configure step hold, for shared=True exactly SOCKPP_BUILD_SHARED=ON and
\* SOCKPP_BUILD_STATIC=OFF, for shared=False exactly SOCKPP_BUILD_SHARED=OFF and
\* SOCKPP_BUILD_STATIC=ON, for shared unset neither flag, whatever the other
\* three options are; the two flags never appear alone or with equal values.
C1_SharedFlags == SharedFlagsAs("SOCKPP_BUILD_SHARED", "SOCKPP_BUILD_STATIC")

C1_Witness ==
    /\ op = "build"
    /\ configured_with.shared = "False"
    /\ configured_with.tests = "True"
    /\ "SOCKPP_BUILD_STATIC" \in DOMAIN definitions
    /\ definitions["SOCKPP_BUILD_STATIC"] = "ON"

----------------------------------------------------------------------------
(* C2 *)

\* C2 as stated: examples, tests, docs each produce BUILD_EXAMPLES, BUILD_TESTS,
\* BUILD_DOCUMENTATION with ON/OFF, nothing when unset, independently of the
\* other options.
C2_FlagsNamedAsStated ==
    OtherFlagsAs("BUILD_EXAMPLES", "BUILD_TESTS", "BUILD_DOCUMENTATION")

\* C2 (amended): after every configure_cmake call each of examples, tests, docs
\* has produced its flag SOCKPP_BUILD_EXAMPLES, SOCKPP_BUILD_TESTS,
\* SOCKPP_BUILD_DOCUMENTATION with ON for True, OFF for False and no flag when
\* unset, depending on that option alone; {tests: False, docs: True} yields
\* exactly {SOCKPP_BUILD_TESTS: OFF, SOCKPP_BUILD_DOCUMENTATION: ON}.
C2_OptionFlags ==
    OtherFlagsAs("SOCKPP_BUILD_EXAMPLES", "SOCKPP_BUILD_TESTS",
                 "SOCKPP_BUILD_DOCUMENTATION")

C2_Witness ==
    /\ op \in ConfigOps
    /\ configured_with = [shared |-> "None", examples |-> "None",
                          tests |-> "False", docs |-> "True"]
    /\ FlagPairs(definitions) = {<<"SOCKPP_BUILD_TESTS", "OFF">>,
                                 <<"SOCKPP_BUILD_DOCUMENTATION", "ON">>}

----------------------------------------------------------------------------
(* C3 *)

\* C3: after package_info, on Windows the library names are exactly
\* [sockpp-static] and the system libraries exactly [ws2_32]; on Linux the
\* library names are exactly [sockpp] and there are no system libraries; in
\* both cases the include directories are [include] and the library
\* directories [lib], for every compiler, build type, architecture and options.
C3_PackageInfo ==
    (op = "package_info" /\ settings.os \in {"Windows", "Linux"}) =>
        /\ cpp_info.includedirs = << "include" >>
        /\ cpp_info.libdirs = << "lib" >>
        /\ settings.os = "Windows" =>
              /\ cpp_info.libs = << "sockpp-static" >>
              /\ cpp_info.system_libs = << "ws2_32" >>
        /\ settings.os = "Linux" =>
              /\ cpp_info.libs = << "sockpp" >>
              /\ cpp_info.system_libs = << >>

C3_Witness ==
    /\ op = "package_info"
    /\ settings.os = "Windows"
    /\ settings.build_type = "Debug"
    /\ options.shared = "True"
    /\ lifecycle = "packaged"
    /\ cpp_info.libs = << "sockpp-static" >>

----------------------------------------------------------------------------
(* C4 *)

\* C4: package_info for an operating system other than Windows and Linux ends
\* with the error UnsupportedPlatform and never returns normally.
C4_UnsupportedPlatform ==
    (op = "package_info" /\ settings.os \notin {"Windows", "Linux"}) =>
        result = "UnsupportedPlatform"

----------------------------------------------------------------------------
(* C6 *)

\* C6: when the compile step invoked by build fails, the error the host sees
\* is BuildFailed, the install step has not been invoked, the run is over, and
\* from then on no further helper call is made and the run never becomes
\* packaged.
C6_BuildFailureAborts ==
    /\ [](CompileFailed =>
            /\ result = "BuildFailed"
            /\ lifecycle = "aborted"
            /\ \A i \in 1..Len(calls) : calls[i].step # "install")
    /\ [][CompileFailed => (calls' = calls /\ lifecycle' # "packaged")]_vars

C6_Witness ==
    /\ op = "build"
    /\ calls = << Call("configure", TRUE), Call("build", FALSE) >>
    /\ result = "BuildFailed"

----------------------------------------------------------------------------
(* C7 *)

\* C7: when the configure step fails in configure, build or package, the
\* operation ends with ConfigurationFailed, the configure step was invoked
\* once and neither the compile nor the install step was invoked after it.
C7_ConfigureFailureAborts ==
    (op \in ConfigOps /\ ConfigureFailed) =>
        /\ result = "ConfigurationFailed"
        /\ Steps(calls) = << "configure" >>
        /\ lifecycle = "aborted"

C7_Witness ==
    /\ op = "build"
    /\ ConfigureFailed
    /\ result = "ConfigurationFailed"

----------------------------------------------------------------------------
(* C8 *)

\* C8: package_info can be invoked in each of the states uninitialized,
\* configured, built and packaged; it makes no helper call and leaves the
\* lifecycle state, the options and the definitions unchanged.
C8_PackageInfoReadOnly ==
    /\ [](lifecycle \in Live => ENABLED package_info)
    /\ [][op' = "package_info" =>
            /\ calls' = << >>
            /\ UNCHANGED <<lifecycle, options, definitions, settings>>]_vars

C8_Witness ==
    /\ op = "package_info"
    /\ lifecycle = "uninitialized"
    /\ cpp_info.libs = << "sockpp" >>

----------------------------------------------------------------------------
(* C9 *)

FlagOf(o) ==
    CASE o = "shared"   -> {"SOCKPP_BUILD_SHARED", "SOCKPP_BUILD_STATIC"}
      [] o = "examples" -> {"SOCKPP_BUILD_EXAMPLES"}
      [] o = "tests"    -> {"SOCKPP_BUILD_TESTS"}
      [] o = "docs"     -> {"SOCKPP_BUILD_DOCUMENTATION"}

\* C9: a configure_cmake call that follows an earlier one with the same option
\* values hands over the same definitions, and the definitions handed over hold
\* flags only of options that are set at that call: nothing of an earlier call
\* or of earlier option values is carried over.
C9_FreshAndDeterministic ==
    /\ [](op \in ConfigOps =>
            DOMAIN definitions =
                UNION {FlagOf(o) : o \in {x \in OptionNames : configured_with[x] # "None"}})
    /\ [][(lifecycle # "uninitialized" /\ op' \in ConfigOps
              /\ configured_with' = configured_with)
            => definitions' = definitions]_vars

C9_Witness ==
    /\ op = "package"
    /\ lifecycle = "packaged"
    /\ configured_with.shared = "None"
    /\ configured_with.docs = "True"
    /\ DOMAIN definitions = {"SOCKPP_BUILD_DOCUMENTATION"}

----------------------------------------------------------------------------
(* C10 *)

\* C10 as stated: every build call makes exactly the helper calls configure,
\* build and every package call exactly configure, install.
C10_AlwaysBothSteps ==
    /\ op = "build" => Steps(calls) = << "configure", "build" >>
    /\ op = "package" => Steps(calls) = << "configure", "install" >>

\* C10 (amended): every build call makes one configure call and, when that call
\* succeeds, one compile call after it and nothing else; every package call
\* makes one configure call and, when that call succeeds, one install call
\* after it and nothing else; when the configure call fails the operation makes
\* no further helper call.  A compile or install call is made only after the
\* configure call of the same operation returned with the definitions of all
\* set options.
C10_StepOrder ==
    /\ op = "build" =>
          Steps(calls) = IF ConfigureFailed THEN << "configure" >>
                         ELSE << "configure", "build" >>
    /\ op = "package" =>
          Steps(calls) = IF ConfigureFailed THEN << "configure" >>
                         ELSE << "configure", "install" >>
    /\ \A i \in 1..Len(calls) :
          (op \in {"build", "package"} /\ calls[i].step \in {"build", "install"}) =>
              /\ i = 2
              /\ calls[1] = Call("configure", TRUE)
              /\ configured_with = options
              /\ DOMAIN definitions =
                    UNION {FlagOf(o) : o \in {x \in OptionNames : options[x] # "None"}}

C10_Witness ==
    /\ op = "package"
    /\ Steps(calls) = << "configure", "install" >>
    /\ result = "ok"
    /\ lifecycle = "packaged"

====
